---- MODULE Spec2Model ----
(***************************************************************************)
(* The liveness-verification orchestrator of the face-verification         *)
(* repository, in its two variants:                                        *)
(*                                                                         *)
(*   poll variant  src/src/components/LivenessVerification.tsx             *)
(*                 (frame timer + status polling timer, state record p)    *)
(*   raf variant   src/unnamed/part_000                                    *)
(*                 (animation-frame loop, status embedded in the frame     *)
(*                 response, state record r)                               *)
(*                                                                         *)
(* JavaScript runs one callback at a time, so every action below is one    *)
(* run of a handler from the event that starts it (a click, a timer, a     *)
(* response) to its next await.  A pending await is a message in pnet or   *)
(* rnet that carries what the continuation closes over.  A React callback  *)
(* closes over the state of the render that created it: the session id a   *)
(* callback sees is the one captured when it was handed out, not the       *)
(* current one, and the messages and timers carry that captured value.     *)
(* The remote service is opaque: a response is any of the shapes the       *)
(* handler distinguishes, chosen when it is delivered, in any order.       *)
(*                                                                         *)
(* Spec is the component, in either variant, while it is mounted.          *)
(* SpecTeardown is Spec with the unmount of the component.  SpecLive is    *)
(* the poll variant with the fairness of its requests and timers.          *)
(* SpecText is the text transform getDisplayTask alone, applied to a set   *)
(* of descriptions.                                                        *)
(***************************************************************************)
EXTENDS Integers, Sequences, FiniteSets

VARIABLES
    variant,   \* which component is mounted: "poll" or "raf" ("none": none)
    p,         \* poll variant: React state and refs
    pnet,      \* poll variant: pending awaits (requests in flight)
    pg,        \* poll variant: history of the run and its current attempt
    r,         \* raf variant: React state and refs
    rnet,      \* raf variant: pending awaits
    rg,        \* raf variant: history of the run and its current attempt
    voice,     \* the utterance the last step handed to speechSynthesis.speak
    input,     \* a description handed to getDisplayTask
    shown      \* what getDisplayTask returned for it, and for what it returned

vars == <<variant, p, pnet, pg, r, rnet, rg, voice, input, shown>>

----------------------------------------------------------------------------
(* Bounds of the model *)

\* session identifiers the service hands out in one run
MaxSessions == 2
\* requests in flight at once when a click or a timer adds one
MaxPending == 2
\* attempts (challenge starts) in one run
MaxAttempts == 2
\* runs of handleStart in progress at once
MaxStarts == 1
\* frames the raf variant submits in one run
MaxFrames == 3
\* successive applications of getDisplayTask to one description
MaxApply == 2
\* the time a challenge task is given, in units of the polling period
MaxTime == 1

\* no session identifier (null / undefined)
NoSid == 0
Sids == 1..MaxSessions
\* no reference image (capturedImageRef.current = null)
NoImage == 0
\* no time_remaining (no current_task, or a request that is not about a task)
NoTime == -1

----------------------------------------------------------------------------
(* Text: strings are sequences of characters *)

LookLeft == <<"L","o","o","k"," ","L","e","f","t">>
LookRight == <<"L","o","o","k"," ","R","i","g","h","t">>
LookDown == <<"L","o","o","k"," ","D","o","w","n">>
CloseEyes == <<"C","l","o","s","e"," ","E","y","e","s">>
NoText == << >>

\* the challenge descriptions the service sends in this model
Descriptions == {LookLeft, LookRight}

\* the letter folded to lower case (the /i flag of the patterns)
Lower(c) ==
    CASE c = "L" -> "l"
      [] c = "R" -> "r"
      [] c = "D" -> "d"
      [] c = "C" -> "c"
      [] c = "E" -> "e"
      [] OTHER -> c

\* pat occurs in s at position i; ci: ignoring case
MatchAt(s, pat, i, ci) ==
    /\ i >= 1
    /\ i + Len(pat) - 1 <= Len(s)
    /\ \A k \in 1..Len(pat) :
          IF ci THEN Lower(s[i + k - 1]) = Lower(pat[k])
                ELSE s[i + k - 1] = pat[k]

\* String.prototype.includes
Includes(s, pat) == \E i \in 1..(Len(s) + 1) : MatchAt(s, pat, i, FALSE)

\* String.prototype.replace with a pattern without the g flag and with the
\* i flag: the first occurrence is replaced, the rest is kept
ReplaceFirstCI(s, pat, rep) ==
    IF \E i \in 1..(Len(s) + 1) : MatchAt(s, pat, i, TRUE)
    THEN LET i == CHOOSE j \in 1..(Len(s) + 1) :
                     /\ MatchAt(s, pat, j, TRUE)
                     /\ \A k \in 1..(j - 1) : ~MatchAt(s, pat, k, TRUE)
         IN SubSeq(s, 1, i - 1) \o rep \o SubSeq(s, i + Len(pat), Len(s))
    ELSE s

\* poll variant: the text shown for a description (mirror left/right)
getDisplayTask(text) ==
    IF text = NoText THEN NoText
    ELSE ReplaceFirstCI(ReplaceFirstCI(text, LookLeft, LookRight),
                        LookRight, LookLeft)

\* the voice prompt for a task text (the same function in both variants)
getVoiceText(task) ==
    IF task = NoText THEN ""
    ELSE IF Includes(task, LookRight) THEN "Please look right"
    ELSE IF Includes(task, LookLeft) THEN "Please look left"
    ELSE IF Includes(task, LookDown) THEN "Please look down"
    ELSE IF Includes(task, CloseEyes) THEN "Please close your eyes"
    ELSE ""

----------------------------------------------------------------------------
(* Shapes shared by the two variants *)

\* useRef(null) of a timer handle: no timer registered through the ref
NoTimer == -1

\* a task-status payload (TaskStatus of src/src/types/index.ts): active,
\* current_task.description (NoText: no current_task), result ("none": no
\* result, "pass": result.final_result truthy, "fail": result present and
\* final_result falsy)
Status(active, task, result) ==
    [active |-> active, task |-> task, result |-> result]

\* useState<TaskStatus | null>(null), and an absent task_session
NullStatus == Status(FALSE, NoText, "null")

\* the payloads the service sends in this model
StatusShapes ==
    {Status(TRUE, d, "none") : d \in Descriptions}
        \cup {Status(FALSE, NoText, "none"),
              Status(FALSE, NoText, "pass"),
              Status(FALSE, NoText, "fail")}

\* the terminal test without its check that a result is present
IsTerminalNoResult(st) == st # NullStatus /\ ~st.active

\* `!status.active && status.result` / `!task_session.active && task_session.result`
IsTerminal(st) == st # NullStatus /\ ~st.active /\ st.result # "none"

\* `status.active && status.current_task`
IsActiveTask(st) == st # NullStatus /\ st.active /\ st.task # NoText

\* current_task.time_remaining of a status payload of a response to a
\* request made when the service had the time t left
TimeOf(st, t) == IF st.task # NoText THEN t ELSE NoTime

\* a pending await: op names the request, sid is the session id the
\* continuation closes over, new the session id its handler created, img the
\* image it carries, time the time_remaining the service had for the task
\* when the request was made, slot tells apart requests that are otherwise
\* equal
MsgAt(op, sid, new, img, time, slot) ==
    [op |-> op, sid |-> sid, new |-> new, img |-> img, time |-> time,
     slot |-> slot]

Msg(op, sid, new, img, slot) == MsgAt(op, sid, new, img, NoTime, slot)

\* a request added to the pending ones: equal requests are numbered 1, 2, ...
SendAt(net, op, sid, new, img, time) ==
    LET same == {m \in net : m = MsgAt(op, sid, new, img, time, m.slot)}
    IN net \cup {MsgAt(op, sid, new, img, time, Cardinality(same) + 1)}

Send(net, op, sid, new, img) == SendAt(net, op, sid, new, img, NoTime)

\* the pending requests of one kind whose response can be delivered next:
\* of equal requests, which are interchangeable, the one numbered last
Pending(net, op) ==
    {m \in net : m.op = op /\ [m EXCEPT !.slot = m.slot + 1] \notin net}

InFlight(net, op) == {m \in net : m.op = op}

\* processingFrameRef cleared at the end of the try block, not in finally
BusyAfterNoFinally(resp) == resp = "throw"

\* processingFrameRef after captureAndProcessFrame has handled the response:
\* `finally { processingFrameRef.current = false }`
BusyAfter(resp) == FALSE

\* the image of the enroll request, re-read from capturedImageRef when the
\* search response arrives
EnrollImageFromRef(m) ==
    IF variant = "poll" THEN p.capturedImageRef ELSE r.capturedImageRef

\* the image of the enroll request that follows the search request m: the
\* blob made from the reference image before the search was sent
EnrollImage(m) == m.img

\* capturedImageRef holding the canvas itself and not a copy of its content:
\* the frame drawn for a submission replaces the reference image
ReferenceAfterDrawShared(img) == NoImage

\* capturedImageRef after a frame was drawn on the canvas the reference image
\* was taken from: the ref holds the data URL made by toDataURL at capture
\* time, a string, which drawing does not change
ReferenceAfterDraw(img) == img

\* setInterval / clearInterval on the timers that share a callback closure
AddTimer(timers, c) == [timers EXCEPT ![c] = @ + 1]
ClearTimer(timers, ref) ==
    IF ref # NoTimer /\ timers[ref] > 0 THEN [timers EXCEPT ![ref] = @ - 1]
    ELSE timers

NoTimers == [c \in 0..MaxSessions |-> 0]

\* the setInterval timers that are live, over all closures
RECURSIVE RegisteredUpTo(_, _)
RegisteredUpTo(timers, n) ==
    IF n < 0 THEN 0 ELSE timers[n] + RegisteredUpTo(timers, n - 1)

Registered(timers) == RegisteredUpTo(timers, MaxSessions)

----------------------------------------------------------------------------
(* Poll variant: src/src/components/LivenessVerification.tsx *)

\* the state after the first render (useState / useRef initial values)
PInit ==
    [isStreaming |-> FALSE,
     sessionId |-> NoSid,
     detectionResult |-> FALSE,       \* a frame result is held
     taskStatus |-> NullStatus,
     taskTime |-> NoTime,             \* taskStatus.current_task.time_remaining
     error |-> "none",                \* "start": a message of a failed start
     isTaskActive |-> FALSE,
     verificationComplete |-> FALSE,
     faceVerificationResult |-> "none",
     frameTimers |-> NoTimers,        \* live setInterval timers, per closure
     frameIntervalRef |-> NoTimer,
     statusTimers |-> NoTimers,
     statusIntervalRef |-> NoTimer,
     processingFrameRef |-> FALSE,
     verificationTriggeredRef |-> FALSE,
     capturedImageRef |-> NoImage,
     videoReady |-> FALSE,            \* readyState = HAVE_ENOUGH_DATA
     nextSid |-> 1,                   \* the next identifier of the service
     timeLeft |-> MaxTime]            \* the time_remaining of the service

\* no search request sent so far (the reference image of attempt i is i)
NoSearches == [i \in 1..MaxAttempts |-> 0]

\* history of the run and of its current attempt (an attempt starts with
\* startLivenessTask)
PGInit ==
    [attempt |-> 0,        \* attempts started
     searches |-> NoSearches,  \* search requests sent, per reference image
     passSeen |-> FALSE,   \* a terminal response with final_result = true
     resetDone |-> FALSE]  \* handleReset ran and no challenge started since

\* useEffect on taskStatus?.current_task?.description: the prompt spoken when
\* the description of the new status differs from the one rendered before
PTaskPrompt(old, new) ==
    IF new.task # old.task /\ IsActiveTask(new)
    THEN getVoiceText(getDisplayTask(new.task))
    ELSE ""

\* the later of two utterances of one step (speak cancels the one before)
Then(first, second) == IF second # "" THEN second ELSE first

\* the instruction rendered in the task display
PDisplayedTask ==
    IF p.isTaskActive /\ p.taskStatus # NullStatus /\ p.taskStatus.task # NoText
    THEN getDisplayTask(p.taskStatus.task)
    ELSE NoText

\* handleStart, to its first await: the create-session request
handleStart ==
    /\ variant = "poll"
    /\ ~p.isStreaming                     \* the Start Camera button is shown
    /\ p.nextSid <= MaxSessions
    /\ Cardinality(InFlight(pnet, "create") \cup InFlight(pnet, "camera"))
           < MaxStarts
    /\ Cardinality(pnet) < MaxPending
    /\ p' = [p EXCEPT !.error = "none"]
    /\ pnet' = Send(pnet, "create", p.sessionId, NoSid, NoImage)
    /\ voice' = ""
    /\ UNCHANGED <<variant, input, shown, pg, r, rnet, rg>>

\* createSession after its response, and handleStart up to getUserMedia
createSession(m, resp) ==
    /\ m \in Pending(pnet, "create")
    /\ resp \in {"ok", "noSuccess", "noId", "throw"}
    /\ resp = "ok" => p.nextSid <= MaxSessions
    /\ IF resp = "ok"
       THEN /\ p' = [p EXCEPT !.sessionId = p.nextSid, !.nextSid = @ + 1]
            /\ pnet' = Send(pnet \ {m}, "camera", m.sid, p.nextSid, NoImage)
       ELSE /\ p' = [p EXCEPT !.error = "start"]
            /\ pnet' = pnet \ {m}
    /\ voice' = ""
    /\ UNCHANGED <<variant, input, shown, pg, r, rnet, rg>>

\* endSession as the closure with session id c sees it, to its await: the
\* pending requests after it
endSession(net, c) ==
    IF c # NoSid THEN Send(net, "end", c, NoSid, NoImage) ELSE net

\* startCamera after getUserMedia and the metadata wait, and the rest of
\* handleStart: the frame timer, or endSession when the camera failed
startCamera(m, resp) ==
    /\ m \in Pending(pnet, "camera")
    /\ resp \in {"granted", "denied"}
    /\ IF resp = "granted"
       THEN /\ p' = [p EXCEPT !.videoReady = TRUE,
                              !.isStreaming = TRUE,
                              !.frameTimers = AddTimer(p.frameTimers, m.sid),
                              !.frameIntervalRef = m.sid]
            /\ pnet' = pnet \ {m}
       ELSE /\ p' = [p EXCEPT !.error = "start"]
            /\ pnet' = endSession(pnet \ {m}, m.sid)
    /\ voice' = ""
    /\ UNCHANGED <<variant, input, shown, pg, r, rnet, rg>>

\* endSession after its request has returned or failed
endSessionDone(m) ==
    /\ m \in Pending(pnet, "end")
    /\ p' = [p EXCEPT !.sessionId = NoSid]
    /\ pnet' = pnet \ {m}
    /\ voice' = ""
    /\ UNCHANGED <<variant, input, shown, pg, r, rnet, rg>>

\* stopCamera, to the await of endSession
stopCamera ==
    /\ variant = "poll"
    /\ p.isStreaming /\ ~p.isTaskActive /\ ~p.verificationComplete
    /\ Cardinality(pnet) < MaxPending
    /\ p' = [p EXCEPT !.frameTimers = ClearTimer(p.frameTimers, p.frameIntervalRef),
                      !.frameIntervalRef = NoTimer,
                      !.statusTimers = ClearTimer(p.statusTimers, p.statusIntervalRef),
                      !.statusIntervalRef = NoTimer,
                      !.videoReady = FALSE,
                      !.isStreaming = FALSE]
    /\ pnet' = endSession(pnet, p.sessionId)
    /\ voice' = ""
    /\ UNCHANGED <<variant, input, shown, pg, r, rnet, rg>>

\* captureAndProcessFrame without the check of processingFrameRef
PCanSubmitNoBusy(c) ==
    /\ c # NoSid
    /\ p.videoReady

\* the guard of captureAndProcessFrame, in the closure with session id c
PCanSubmit(c) ==
    /\ c # NoSid
    /\ ~p.processingFrameRef
    /\ p.videoReady

\* a frame timer tick: captureAndProcessFrame to the await of the request
captureAndProcessFrame(c) ==
    /\ variant = "poll"
    /\ p.frameTimers[c] > 0
    /\ PCanSubmit(c)
    /\ Cardinality(pnet) < MaxPending
    /\ p' = [p EXCEPT !.processingFrameRef = TRUE,
                      !.capturedImageRef = ReferenceAfterDraw(p.capturedImageRef)]
    /\ pnet' = Send(pnet, "frame", c, NoSid, NoImage)
    /\ voice' = ""
    /\ UNCHANGED <<variant, input, shown, pg, r, rnet, rg>>

\* captureAndProcessFrame after the response: "ok" a result, "error" a body
\* with an error field, "invalid" a body whose error field names an invalid
\* session_id (the error shown is the text of the field in both cases),
\* "throw" a transport error, a non-OK status or a body that does not parse
captureAndProcessFrameDone(m, resp) ==
    /\ m \in Pending(pnet, "frame")
    /\ resp \in {"ok", "error", "invalid", "throw"}
    /\ p' = [p EXCEPT !.detectionResult = IF resp = "ok" THEN TRUE ELSE @,
                      !.error = CASE resp = "ok" -> "none"
                                  [] resp \in {"error", "invalid"} -> "frame-error"
                                  [] OTHER -> "frame-failed",
                      !.processingFrameRef = BusyAfter(resp)]
    /\ pnet' = pnet \ {m}
    /\ voice' = ""
    /\ UNCHANGED <<variant, input, shown, pg, r, rnet, rg>>

\* startLivenessTask, to the await of the start-challenge request
startLivenessTask ==
    /\ variant = "poll"
    /\ p.isStreaming /\ ~p.isTaskActive /\ ~p.verificationComplete
    /\ pg.attempt < MaxAttempts
    /\ Cardinality(pnet) < MaxPending
    /\ IF p.sessionId = NoSid
       THEN /\ p' = [p EXCEPT !.error = "start"]
            /\ UNCHANGED <<pnet, pg>>
       ELSE /\ p' = [p EXCEPT !.capturedImageRef = pg.attempt + 1,
                              !.verificationTriggeredRef = FALSE,
                              !.verificationComplete = FALSE,
                              !.faceVerificationResult = "none",
                              !.timeLeft = MaxTime]
            /\ pnet' = SendAt(pnet, "startTask", p.sessionId, NoSid, NoImage,
                               MaxTime)
            /\ pg' = [pg EXCEPT !.attempt = @ + 1,
                                !.passSeen = FALSE,
                                !.resetDone = FALSE]
    /\ voice' = ""
    /\ UNCHANGED <<variant, input, shown, r, rnet, rg>>

\* startLivenessTask after the response: the status timer
startLivenessTaskDone(m, resp, st) ==
    /\ m \in Pending(pnet, "startTask")
    /\ resp \in {"ok", "fail", "throw"}
    /\ st \in StatusShapes \cup {NullStatus}
    /\ IF resp = "ok"
       THEN /\ p' = [p EXCEPT !.taskStatus = st,
                              !.taskTime = TimeOf(st, m.time),
                              !.isTaskActive = TRUE,
                              !.statusTimers = AddTimer(p.statusTimers, m.sid),
                              !.statusIntervalRef = m.sid]
            /\ voice' = PTaskPrompt(p.taskStatus, st)
       ELSE /\ st = NullStatus
            /\ p' = [p EXCEPT !.error = "start"]
            /\ voice' = ""
    /\ pnet' = pnet \ {m}
    /\ UNCHANGED <<variant, input, shown, pg, r, rnet, rg>>

\* a status timer tick: updateTaskStatus to the await of the poll
updateTaskStatus(c) ==
    /\ variant = "poll"
    /\ p.statusTimers[c] > 0
    /\ c # NoSid
    /\ ~p.verificationTriggeredRef
    /\ Cardinality(pnet) < MaxPending
    /\ pnet' = SendAt(pnet, "poll", c, NoSid, NoImage, p.timeLeft)
    /\ p' = [p EXCEPT !.timeLeft = IF @ > 0 THEN @ - 1 ELSE @]
    /\ voice' = ""
    /\ UNCHANGED <<variant, input, shown, pg, r, rnet, rg>>

\* `status.result.final_result && !verificationTriggeredRef.current`
PShouldTrigger(st) == st.result = "pass" /\ ~p.verificationTriggeredRef

\* performFaceVerification, to the await of the search request: the pending
\* requests after it (no request without a reference image)
performFaceVerification(net) ==
    IF p.capturedImageRef = NoImage THEN net
    ELSE Send(net, "search", NoSid, NoSid, p.capturedImageRef)

\* updateTaskStatus after the poll's response: "ok" a body, "invalid" a body
\* with an error field that names an invalid session_id (st is its
\* session_status, or what the body itself holds of a status), "throw" a
\* transport error, a non-OK status or a body that does not parse
updateTaskStatusDone(m, resp, st) ==
    /\ m \in Pending(pnet, "poll")
    /\ resp \in {"ok", "invalid", "throw"}
    /\ st \in StatusShapes
    /\ IF resp = "throw"
       THEN /\ st = Status(FALSE, NoText, "none")
            /\ pnet' = pnet \ {m}
            /\ voice' = ""
            /\ UNCHANGED <<p, pg>>
       ELSE LET terminal == IsTerminal(st)
                fire == terminal /\ PShouldTrigger(st)
                net == IF fire THEN performFaceVerification(pnet \ {m})
                       ELSE pnet \ {m}
                sent == Cardinality(net \ pnet)
                said == IF fire
                        THEN IF sent > 0 THEN "Processing face verification"
                             ELSE "Liveness verification successful"
                        ELSE IF terminal /\ st.result = "fail"
                             THEN "Liveness verification failed"
                             ELSE ""
            IN /\ p' = [p EXCEPT
                          !.taskStatus = st,
                          !.taskTime = TimeOf(st, m.time),
                          !.statusTimers =
                              IF terminal THEN ClearTimer(p.statusTimers, p.statusIntervalRef)
                              ELSE @,
                          !.statusIntervalRef = IF terminal THEN NoTimer ELSE @,
                          !.isTaskActive = IF terminal THEN FALSE ELSE @,
                          !.verificationComplete = IF terminal THEN TRUE ELSE @,
                          !.verificationTriggeredRef = IF fire THEN TRUE ELSE @]
               /\ pnet' = net
               /\ pg' = [pg EXCEPT
                          !.searches =
                              IF sent > 0
                              THEN [@ EXCEPT ![p.capturedImageRef] = @ + 1]
                              ELSE @,
                          !.passSeen = @ \/ (terminal /\ st.result = "pass")]
               /\ voice' = Then(said, PTaskPrompt(p.taskStatus, st))
    /\ UNCHANGED <<variant, input, shown, r, rnet, rg>>

\* performFaceVerification after the search response: "match" a body with
\* matched_user_id, "nomatch" any other body of an OK response, "failed" a
\* non-OK status with a body that parses (the status is not looked at),
\* "throw" a transport error or a body that does not parse
performFaceVerificationSearch(m, resp) ==
    /\ m \in Pending(pnet, "search")
    /\ resp \in {"match", "nomatch", "failed", "throw"}
    /\ CASE resp = "match" ->
              /\ p' = [p EXCEPT !.faceVerificationResult = "matched"]
              /\ pnet' = pnet \ {m}
              /\ voice' = "Face already exists"
              /\ UNCHANGED pg
         [] resp \in {"nomatch", "failed"} ->
              /\ pnet' = Send(pnet \ {m}, "enroll", NoSid, NoSid, EnrollImage(m))
              /\ voice' = ""
              /\ UNCHANGED <<p, pg>>
         [] OTHER ->
              /\ p' = [p EXCEPT !.error = "face-verification"]
              /\ pnet' = pnet \ {m}
              /\ voice' = "Face verification failed"
              /\ UNCHANGED pg
    /\ UNCHANGED <<variant, input, shown, r, rnet, rg>>

\* performFaceVerification after the enroll response: "ok" a body with
\* data.person_id, "noId" a body of an OK response without it (the identity
\* recorded is ""), "failed" a non-OK status with a body that parses (the
\* status is not looked at), "throw" a transport error or a body that does
\* not parse
performFaceVerificationEnroll(m, resp) ==
    /\ m \in Pending(pnet, "enroll")
    /\ resp \in {"ok", "noId", "failed", "throw"}
    /\ IF resp = "throw"
       THEN /\ p' = [p EXCEPT !.error = "face-verification"]
            /\ voice' = "Face verification failed"
       ELSE /\ p' = [p EXCEPT !.faceVerificationResult = "enrolled"]
            /\ voice' = "Face registered successfully"
    /\ pnet' = pnet \ {m}
    /\ UNCHANGED <<variant, input, shown, pg, r, rnet, rg>>

\* handleReset (its reset request has no continuation)
handleReset ==
    /\ variant = "poll"
    /\ p.isStreaming /\ p.verificationComplete   \* the Try Again button is shown
    /\ p' = [p EXCEPT !.verificationTriggeredRef = FALSE,
                      !.capturedImageRef = NoImage,
                      !.taskStatus = NullStatus,
                      !.taskTime = NoTime,
                      !.verificationComplete = FALSE,
                      !.faceVerificationResult = "none",
                      !.isTaskActive = FALSE,
                      !.error = "none"]
    /\ pg' = [pg EXCEPT !.resetDone = TRUE]
    /\ voice' = ""
    /\ UNCHANGED <<variant, input, shown, pnet, r, rnet, rg>>

PNext ==
    \/ handleStart
    \/ \E m \in pnet, resp \in {"ok", "noSuccess", "noId", "throw"} :
          createSession(m, resp)
    \/ \E m \in pnet, resp \in {"granted", "denied"} :
          startCamera(m, resp)
    \/ \E m \in pnet : endSessionDone(m)
    \/ stopCamera
    \/ \E c \in 0..MaxSessions : captureAndProcessFrame(c)
    \/ \E m \in pnet, resp \in {"ok", "error", "invalid", "throw"} :
          captureAndProcessFrameDone(m, resp)
    \/ startLivenessTask
    \/ \E m \in pnet, resp \in {"ok", "fail", "throw"},
          st \in StatusShapes \cup {NullStatus} :
          startLivenessTaskDone(m, resp, st)
    \/ \E c \in 0..MaxSessions : updateTaskStatus(c)
    \/ \E m \in pnet, resp \in {"ok", "invalid", "throw"}, st \in StatusShapes :
          updateTaskStatusDone(m, resp, st)
    \/ \E m \in pnet, resp \in {"match", "nomatch", "failed", "throw"} :
          performFaceVerificationSearch(m, resp)
    \/ \E m \in pnet, resp \in {"ok", "noId", "failed", "throw"} :
          performFaceVerificationEnroll(m, resp)
    \/ handleReset

----------------------------------------------------------------------------
(* Raf variant: src/unnamed/part_000 *)

\* the minimum time between two frame submissions, in ms
ThrottleMs == 50
\* pending setTimeout(performFaceVerification, 1000) timers at once
MaxTimers == 2

\* the closures a callback can hold: the session id of the render it is from
Closures == 0..MaxSessions

RInit ==
    [sessionId |-> NoSid,
     taskText |-> NoText,
     timer |-> FALSE,                 \* a "Time left" text is shown
     active |-> FALSE,
     disabled |-> FALSE,
     isStreaming |-> FALSE,
     error |-> "none",
     detectionResult |-> FALSE,       \* a frame result is held
     faceVerificationResult |-> "none",
     animationFrameRef |-> NoTimer,   \* the closure of the pending frameLoop
     effectDeps |-> <<FALSE, NoSid>>, \* isStreaming, sessionId of the last effect
     processingFrameRef |-> FALSE,
     sinceLastFrame |-> ThrottleMs,   \* Date.now() - lastFrameTimeRef, capped
     verificationCompleteRef |-> FALSE,
     capturedImageRef |-> NoImage,
     faceVerificationTriggeredRef |-> FALSE,
     completionTimers |-> 0,          \* pending setTimeout(performFaceVerification)
     lastSpoken |-> [c \in Closures |-> ""],  \* `let lastSpoken` of each render
     videoReady |-> FALSE,
     nextSid |-> 1]

\* history of the run and of its current attempt (an attempt starts with
\* startLiveness)
RGInit ==
    [attempt |-> 0,
     searches |-> NoSearches,
     passSeen |-> FALSE,
     frames |-> 0,         \* frames submitted
     sinceSubmit |-> ThrottleMs]  \* time since the last submission, capped

\* speak(text) in the render with closure c: what is uttered ("" nothing)
speak(c, text) == IF text = "" \/ r.lastSpoken[c] = text THEN "" ELSE text

\* lastSpoken after speak(text) in the render with closure c
Spoken(c, text) ==
    IF text = "" THEN r.lastSpoken ELSE [r.lastSpoken EXCEPT ![c] = text]

\* the state with the lastSpoken of the renders no callback can reach any
\* more (not the first render's, the current one's, the pending frameLoop's
\* or a pending frame request's) forgotten
Collect(rec, net) ==
    [rec EXCEPT !.lastSpoken =
        [c \in Closures |->
            IF \/ c = NoSid
               \/ c = rec.sessionId
               \/ c = rec.animationFrameRef
               \/ \E m \in InFlight(net, "frame") : m.sid = c
            THEN rec.lastSpoken[c]
            ELSE ""]]

\* the instruction rendered in the task display
RDisplayedTask == r.taskText

\* startLiveness, to the await of the create-session request
startLiveness ==
    /\ variant = "raf"
    /\ ~r.disabled
    /\ rg.attempt < MaxAttempts
    /\ r.nextSid <= MaxSessions
    /\ Cardinality(rnet) < MaxPending
    /\ r' = [r EXCEPT !.disabled = TRUE,
                      !.error = "none",
                      !.verificationCompleteRef = FALSE,
                      !.faceVerificationTriggeredRef = FALSE,
                      !.faceVerificationResult = "none",
                      !.taskText = NoText,
                      !.timer = FALSE,
                      !.active = FALSE]
    /\ rnet' = Send(rnet, "create", NoSid, NoSid, NoImage)
    /\ rg' = [rg EXCEPT !.attempt = @ + 1, !.passSeen = FALSE]
    /\ voice' = ""
    /\ UNCHANGED <<variant, input, shown, p, pnet, pg>>

\* `if (!sRes.success) throw`: the create response lets the attempt go on
RSessionAccepted(resp) == resp \in {"ok", "noId"}

\* startLiveness after the create response, to the await of getUserMedia
startLivenessCreated(m, resp) ==
    /\ m \in Pending(rnet, "create")
    /\ resp \in {"ok", "noId", "noSuccess", "throw"}
    /\ resp = "ok" => r.nextSid <= MaxSessions
    /\ IF RSessionAccepted(resp)
       THEN LET sid == IF resp = "ok" THEN r.nextSid ELSE NoSid
            IN /\ rnet' = Send(rnet \ {m}, "camera", NoSid, sid, NoImage)
               /\ r' = Collect([r EXCEPT
                                   !.sessionId = sid,
                                   !.nextSid = IF resp = "ok" THEN @ + 1 ELSE @],
                               rnet')
       ELSE /\ r' = [r EXCEPT !.error = "start",
                              !.disabled = FALSE,
                              !.isStreaming = FALSE]
            /\ rnet' = rnet \ {m}
    /\ voice' = ""
    /\ UNCHANGED <<variant, input, shown, p, pnet, pg, rg>>

\* getUserMedia after the camera answered, and startLiveness through the
\* 500 ms wait and the capture of the reference image to the await of the
\* start-challenge request
startLivenessCamera(m, resp) ==
    /\ m \in Pending(rnet, "camera")
    /\ resp \in {"granted", "denied"}
    /\ IF resp = "granted"
       THEN /\ r' = [r EXCEPT !.videoReady = TRUE,
                              !.capturedImageRef = rg.attempt]
            /\ rnet' = Send(rnet \ {m}, "startTask", m.new, NoSid, NoImage)
       ELSE /\ r' = [r EXCEPT !.error = "start", !.disabled = FALSE]
            /\ rnet' = rnet \ {m}
    /\ voice' = ""
    /\ UNCHANGED <<variant, input, shown, p, pnet, pg, rg>>

\* startLiveness after the start-challenge response
startLivenessStarted(m, resp) ==
    /\ m \in Pending(rnet, "startTask")
    /\ resp \in {"ok", "fail", "throw"}
    /\ IF resp = "ok"
       THEN r' = [r EXCEPT !.isStreaming = TRUE]
       ELSE r' = [r EXCEPT !.error = "start",
                           !.disabled = FALSE,
                           !.isStreaming = FALSE]
    /\ rnet' = rnet \ {m}
    /\ voice' = ""
    /\ UNCHANGED <<variant, input, shown, p, pnet, pg, rg>>

\* useEffect on [isStreaming, frameLoop], run after a render that changed
\* isStreaming or sessionId: the cleanup of the effect before, then its body
frameLoopEffect ==
    /\ variant = "raf"
    /\ r.effectDeps # <<r.isStreaming, r.sessionId>>
    /\ r' = Collect([r EXCEPT
                        !.effectDeps = <<r.isStreaming, r.sessionId>>,
                        !.animationFrameRef =
                            IF r.isStreaming THEN r.sessionId ELSE NoTimer,
                        !.sinceLastFrame = IF r.isStreaming THEN 0 ELSE @],
                    rnet)
    /\ voice' = ""
    /\ UNCHANGED <<variant, input, shown, p, pnet, pg, rnet, rg>>

\* the time that passes between two callbacks: less than the throttle
\* interval, or at least the interval
TimeSteps == {ThrottleMs \div 2, ThrottleMs}

\* a time span that has grown by d, counted up to the throttle interval
Later(t, d) == IF t + d > ThrottleMs THEN ThrottleMs ELSE t + d

\* time passes
timePasses(d) ==
    /\ variant = "raf"
    /\ d \in TimeSteps
    /\ r.sinceLastFrame < ThrottleMs \/ rg.sinceSubmit < ThrottleMs
    /\ r' = [r EXCEPT !.sinceLastFrame = Later(r.sinceLastFrame, d)]
    /\ rg' = [rg EXCEPT !.sinceSubmit = Later(rg.sinceSubmit, d)]
    /\ voice' = ""
    /\ UNCHANGED <<variant, input, shown, p, pnet, pg, rnet>>

\* captureAndProcessFrame without the check of the time since the last frame
RCanSubmitNoThrottle(c) ==
    /\ c # NoSid
    /\ r.videoReady
    /\ ~r.processingFrameRef

\* the guards of captureAndProcessFrame, in the closure with session id c
RCanSubmit(c) ==
    /\ c # NoSid
    /\ r.videoReady
    /\ ~r.processingFrameRef
    /\ ~(r.sinceLastFrame < ThrottleMs)

\* an animation-frame callback: frameLoop, which calls captureAndProcessFrame
\* (to the await of the request) and asks for the next animation frame
frameLoop(c) ==
    /\ variant = "raf"
    /\ r.animationFrameRef = c
    /\ RCanSubmit(c)
    /\ Cardinality(rnet) < MaxPending
    /\ rg.frames < MaxFrames
    /\ r' = [r EXCEPT !.processingFrameRef = TRUE,
                      !.sinceLastFrame = 0,
                      !.capturedImageRef = ReferenceAfterDraw(r.capturedImageRef)]
    /\ rnet' = Send(rnet, "frame", c, NoSid, NoImage)
    /\ rg' = [rg EXCEPT !.frames = @ + 1, !.sinceSubmit = 0]
    /\ voice' = ""
    /\ UNCHANGED <<variant, input, shown, p, pnet, pg>>

\* captureAndProcessFrame after the response: "ok" a body without an error
\* field, "invalid" a body whose error field names an invalid session_id,
\* "error" a body with another error, each with the task_session st it
\* carries (NullStatus: none); "throw" a transport error or a body that does
\* not parse
frameResponse(m, resp, st) ==
    /\ m \in Pending(rnet, "frame")
    /\ resp \in {"ok", "invalid", "error", "throw"}
    /\ st \in StatusShapes \cup {NullStatus}
    /\ resp = "throw" => st = NullStatus
    /\ LET activeTask == resp = "ok" /\ IsActiveTask(st)
           terminal == resp = "ok" /\ IsTerminal(st)
           pass == terminal /\ st.result = "pass"
           text == IF terminal
                   THEN IF pass THEN "Liveness verification successful"
                        ELSE "Liveness verification failed"
                   ELSE IF activeTask THEN getVoiceText(st.task) ELSE ""
       IN /\ pass => r.completionTimers < MaxTimers
          /\ r' = Collect([r EXCEPT
                !.error = CASE resp = "ok" -> "none"
                            [] resp = "invalid" -> "session-expired"
                            [] resp = "error" -> "frame-error"
                            [] OTHER -> @,
                !.detectionResult = IF resp = "ok" THEN TRUE ELSE @,
                !.active = IF terminal THEN FALSE
                           ELSE IF activeTask THEN TRUE ELSE @,
                !.taskText = IF terminal THEN NoText
                             ELSE IF activeTask THEN st.task ELSE @,
                !.timer = IF terminal THEN FALSE
                          ELSE IF activeTask THEN TRUE ELSE @,
                !.verificationCompleteRef = IF terminal THEN TRUE ELSE @,
                !.disabled = IF terminal \/ resp = "invalid" THEN FALSE ELSE @,
                !.isStreaming = IF terminal \/ resp = "invalid" THEN FALSE ELSE @,
                !.completionTimers = IF pass THEN @ + 1 ELSE @,
                !.lastSpoken = Spoken(m.sid, text),
                !.processingFrameRef = BusyAfter(resp)], rnet \ {m})
          /\ rg' = [rg EXCEPT !.passSeen = @ \/ pass]
          /\ voice' = speak(m.sid, text)
    /\ rnet' = rnet \ {m}
    /\ UNCHANGED <<variant, input, shown, p, pnet, pg>>

\* the guards of performFaceVerification: a reference image and the latch
RMayVerify ==
    r.capturedImageRef # NoImage /\ ~r.faceVerificationTriggeredRef

\* the setTimeout of the terminal branch fires: performFaceVerification, to
\* the await of the search request
performFaceVerificationR ==
    /\ variant = "raf"
    /\ r.completionTimers > 0
    /\ Cardinality(rnet) < MaxPending
    /\ IF RMayVerify
       THEN /\ r' = [r EXCEPT !.completionTimers = @ - 1,
                              !.faceVerificationTriggeredRef = TRUE]
            /\ rnet' = Send(rnet, "search", NoSid, NoSid, r.capturedImageRef)
            /\ rg' = [rg EXCEPT !.searches[r.capturedImageRef] = @ + 1]
       ELSE /\ r' = [r EXCEPT !.completionTimers = @ - 1]
            /\ UNCHANGED <<rnet, rg>>
    /\ voice' = ""
    /\ UNCHANGED <<variant, input, shown, p, pnet, pg>>

\* performFaceVerification after the search response: the responses of
\* performFaceVerificationSearch (searchFace does not look at the status)
searchFaceResponse(m, resp) ==
    /\ m \in Pending(rnet, "search")
    /\ resp \in {"match", "nomatch", "failed", "throw"}
    /\ CASE resp = "match" ->
              /\ r' = [r EXCEPT !.faceVerificationResult = "existing",
                                !.lastSpoken = Spoken(NoSid, "Face already exists")]
              /\ rnet' = rnet \ {m}
              /\ voice' = speak(NoSid, "Face already exists")
              /\ UNCHANGED rg
         [] resp \in {"nomatch", "failed"} ->
              /\ rnet' = Send(rnet \ {m}, "enroll", NoSid, NoSid, EnrollImage(m))
              /\ voice' = ""
              /\ UNCHANGED <<r, rg>>
         [] OTHER ->
              /\ r' = [r EXCEPT !.error = "face-verification"]
              /\ rnet' = rnet \ {m}
              /\ voice' = ""
              /\ UNCHANGED rg
    /\ UNCHANGED <<variant, input, shown, p, pnet, pg>>

\* performFaceVerification after the enroll response: "ok" a body with
\* data.person_id, "noId" a data object without it, "noData" no data object
\* (reading addRes.data.person_id throws), "failed" a non-OK status with a
\* body that parses and has a data object (addFace does not look at the
\* status), "throw" a transport error or a body that does not parse
addFaceResponse(m, resp) ==
    /\ m \in Pending(rnet, "enroll")
    /\ resp \in {"ok", "noId", "noData", "failed", "throw"}
    /\ IF resp \in {"ok", "noId", "failed"}
       THEN /\ r' = [r EXCEPT
                       !.faceVerificationResult = "new",
                       !.lastSpoken = Spoken(NoSid, "Face registered successfully")]
            /\ voice' = speak(NoSid, "Face registered successfully")
       ELSE /\ r' = [r EXCEPT !.error = "face-verification"]
            /\ voice' = ""
    /\ rnet' = rnet \ {m}
    /\ UNCHANGED <<variant, input, shown, p, pnet, pg, rg>>

RNext ==
    \/ startLiveness
    \/ \E m \in rnet, resp \in {"ok", "noId", "noSuccess", "throw"} :
          startLivenessCreated(m, resp)
    \/ \E m \in rnet, resp \in {"granted", "denied"} :
          startLivenessCamera(m, resp)
    \/ \E m \in rnet, resp \in {"ok", "fail", "throw"} :
          startLivenessStarted(m, resp)
    \/ frameLoopEffect
    \/ \E d \in TimeSteps : timePasses(d)
    \/ \E c \in Closures : frameLoop(c)
    \/ \E m \in rnet, resp \in {"ok", "invalid", "error", "throw"},
          st \in StatusShapes \cup {NullStatus} :
          frameResponse(m, resp, st)
    \/ performFaceVerificationR
    \/ \E m \in rnet, resp \in {"match", "nomatch", "failed", "throw"} :
          searchFaceResponse(m, resp)
    \/ \E m \in rnet, resp \in {"ok", "noId", "noData", "failed", "throw"} :
          addFaceResponse(m, resp)

----------------------------------------------------------------------------
Init ==
    /\ variant \in {"poll", "raf"}
    /\ p = PInit
    /\ pnet = {}
    /\ pg = PGInit
    /\ r = RInit
    /\ rnet = {}
    /\ rg = RGInit
    /\ voice = ""
    /\ input = NoText
    /\ shown = << >>

Next == PNext \/ RNext

Spec == Init /\ [][Next]_vars

----------------------------------------------------------------------------
(* Teardown: the component is unmounted *)

\* poll variant, the cleanup of the mount effect: the timers the two refs
\* name are cleared, the camera tracks are stopped, speech is cancelled
cleanupOnUnmount ==
    /\ variant = "poll"
    /\ variant' = "unmounted"
    /\ p' = [p EXCEPT !.frameTimers = ClearTimer(p.frameTimers, p.frameIntervalRef),
                      !.statusTimers = ClearTimer(p.statusTimers, p.statusIntervalRef),
                      !.videoReady = FALSE]
    /\ voice' = ""
    /\ UNCHANGED <<input, shown, pnet, pg, r, rnet, rg>>

\* raf variant, the cleanups of the frame-loop effect and of the mount
\* effect: the pending animation frame is cancelled, speech is cancelled
cleanup ==
    /\ variant = "raf"
    /\ variant' = "unmounted"
    /\ r' = [r EXCEPT !.animationFrameRef = NoTimer, !.videoReady = FALSE]
    /\ voice' = ""
    /\ UNCHANGED <<input, shown, p, pnet, pg, rnet, rg>>

\* the component up to its unmount (what callbacks still pending do after
\* it is not followed)
NextTeardown ==
    \/ variant # "unmounted" /\ Next
    \/ cleanupOnUnmount
    \/ cleanup

SpecTeardown == Init /\ [][NextTeardown]_vars

----------------------------------------------------------------------------
(* The poll variant with its scheduling *)

\* the control buttons: Start Camera while not streaming, Start Verification
\* and Stop Camera while streaming with no task active and no verification
\* complete, Try Again once a verification is complete, and none otherwise
PControlsEnabled ==
    \/ ~p.isStreaming
    \/ ~p.isTaskActive /\ ~p.verificationComplete
    \/ p.verificationComplete

InitLive ==
    /\ Init
    /\ variant = "poll"

\* every request returns (fetch and getUserMedia settle, the camera wait has
\* a 10 s timeout), and a registered setInterval timer keeps ticking; the
\* clicks of the user are under no obligation
FairLive ==
    /\ WF_vars(\E m \in pnet, resp \in {"ok", "noSuccess", "noId", "throw"} :
                  createSession(m, resp))
    /\ WF_vars(\E m \in pnet, resp \in {"granted", "denied"} :
                  startCamera(m, resp))
    /\ WF_vars(\E m \in pnet : endSessionDone(m))
    /\ WF_vars(\E m \in pnet, resp \in {"ok", "error", "invalid", "throw"} :
                  captureAndProcessFrameDone(m, resp))
    /\ WF_vars(\E m \in pnet, resp \in {"ok", "fail", "throw"},
                  st \in StatusShapes \cup {NullStatus} :
                  startLivenessTaskDone(m, resp, st))
    /\ WF_vars(\E m \in pnet, resp \in {"ok", "invalid", "throw"},
                  st \in StatusShapes :
                  updateTaskStatusDone(m, resp, st))
    /\ WF_vars(\E m \in pnet, resp \in {"match", "nomatch", "failed", "throw"} :
                  performFaceVerificationSearch(m, resp))
    /\ WF_vars(\E m \in pnet, resp \in {"ok", "noId", "failed", "throw"} :
                  performFaceVerificationEnroll(m, resp))
    /\ WF_vars(\E c \in 0..MaxSessions : captureAndProcessFrame(c))
    /\ WF_vars(\E c \in 0..MaxSessions : updateTaskStatus(c))

SpecLive == InitLive /\ [][PNext]_vars /\ FairLive

----------------------------------------------------------------------------
(* getDisplayTask on its own *)

\* the text in lower case
LowerText(s) == [i \in 1..Len(s) |-> Lower(s[i])]

Words ==
    {NoText, LookLeft, LookRight, LookDown, CloseEyes,
     LowerText(LookLeft), LowerText(LookRight)}

\* the descriptions getDisplayTask is applied to
Texts == {w1 \o w2 : w1 \in Words, w2 \in Words}

InitText ==
    /\ variant = "none"
    /\ p = PInit
    /\ pnet = {}
    /\ pg = PGInit
    /\ r = RInit
    /\ rnet = {}
    /\ rg = RGInit
    /\ voice = ""
    /\ input \in Texts
    /\ shown = << >>

\* getDisplayTask applied to the description, then to what it returned
display ==
    /\ Len(shown) < MaxApply
    /\ shown' = Append(shown, getDisplayTask(IF shown = << >> THEN input
                                             ELSE shown[Len(shown)]))
    /\ UNCHANGED <<variant, p, pnet, pg, r, rnet, rg, voice, input>>

SpecText == InitText /\ [][display]_vars

----------------------------------------------------------------------------
(* Properties *)

\* C1: the face search step runs at most once per attempt: no reference
\* image (the image identifies the attempt that captured it) is sent in more
\* than one search request, whatever triggers are delivered
C1_SearchOncePerAttempt ==
    \A i \in 1..MaxAttempts : pg.searches[i] <= 1 /\ rg.searches[i] <= 1

\* C2: a face-verification result (Matched or Enrolled) is held only in an
\* attempt in which a terminal response with final_result = true was seen
C2_ResultOnlyAfterPass ==
    /\ p.faceVerificationResult # "none" => pg.passSeen
    /\ r.faceVerificationResult # "none" => rg.passSeen

\* C3: once a terminal response has been processed, no response processed
\* afterwards makes the tracked task state active again or removes the
\* recorded outcome
C3_TerminalIsSticky ==
    [][/\ \A m \in pnet, st \in StatusShapes :
             (/\ p.verificationComplete
              /\ IsTerminal(p.taskStatus)
              /\ updateTaskStatusDone(m, "ok", st))
                 => IsTerminal(p'.taskStatus)
       /\ \A m \in rnet, st \in StatusShapes :
             (/\ r.verificationCompleteRef
              /\ frameResponse(m, "ok", st))
                 => ~r'.active]_vars

\* C4: at most one process_frame request is in flight, and processingFrameRef
\* is set exactly while one is
C4_OneFrameInFlight ==
    /\ Cardinality(InFlight(pnet, "frame")) <= 1
    /\ Cardinality(InFlight(rnet, "frame")) <= 1
    /\ p.processingFrameRef <=> InFlight(pnet, "frame") # {}
    /\ r.processingFrameRef <=> InFlight(rnet, "frame") # {}

\* a frame timer of the poll variant can tick, with the camera ready, while a
\* process_frame request is in flight
C4_TickWhileInFlight ==
    /\ \E c \in Sids : p.frameTimers[c] > 0
    /\ p.videoReady
    /\ p.processingFrameRef
    /\ InFlight(pnet, "frame") # {}

\* C5: from handleReset until the user starts a new challenge the machine is
\* Idle: no task status, not task-active, not verification-complete, no
\* face-verification result, no reference image, latch not set
C5_ResetLeavesIdle ==
    pg.resetDone =>
        /\ p.taskStatus = NullStatus
        /\ ~p.isTaskActive
        /\ ~p.verificationComplete
        /\ p.faceVerificationResult = "none"
        /\ p.capturedImageRef = NoImage
        /\ ~p.verificationTriggeredRef

\* C6: getDisplayTask maps "Look Left" to "Look Right" and "Look Right" to
\* "Look Left", applied twice it returns these two unchanged, and it returns
\* every other description unchanged
C6_MirrorsLeftAndRight ==
    /\ Len(shown) >= 1 =>
          shown[1] = CASE input = LookLeft -> LookRight
                       [] input = LookRight -> LookLeft
                       [] OTHER -> input
    /\ Len(shown) >= 2 /\ input \in {LookLeft, LookRight} => shown[2] = input

\* C7: for a tracked active task "Look Left" the instruction shown is "Look
\* Right" and the prompt spoken for it is "Please look right", and
\* symmetrically for "Look Right"
C7_MirroredInstruction ==
    /\ variant = "poll" /\ p.isTaskActive /\ IsActiveTask(p.taskStatus) =>
          /\ p.taskStatus.task = LookLeft =>
                PDisplayedTask = LookRight /\ voice # "Please look left"
          /\ p.taskStatus.task = LookRight =>
                PDisplayedTask = LookLeft /\ voice # "Please look right"
    /\ variant = "raf" /\ r.active =>
          /\ r.taskText = LookLeft =>
                RDisplayedTask = LookRight /\ voice # "Please look left"
          /\ r.taskText = LookRight =>
                RDisplayedTask = LookLeft /\ voice # "Please look right"

\* C8: camera access is requested only after a create-session response that
\* carried a success flag and a session identifier
C8_CameraOnlyWithSession ==
    \A m \in pnet \cup rnet : m.op = "camera" => m.new # NoSid

\* C9: a frame or status response for a session that is no longer the
\* current one changes no state and triggers no prompt or completion step
C9_StaleResponseDiscarded ==
    [][/\ \A m \in pnet, resp \in {"ok", "error", "throw"} :
             (m.sid # p.sessionId /\ captureAndProcessFrameDone(m, resp))
                 => /\ p'.detectionResult = p.detectionResult
                    /\ p'.error = p.error
       /\ \A m \in pnet, st \in StatusShapes :
             (m.sid # p.sessionId /\ updateTaskStatusDone(m, "ok", st))
                 => /\ p'.taskStatus = p.taskStatus
                    /\ p'.verificationComplete = p.verificationComplete
                    /\ p'.verificationTriggeredRef = p.verificationTriggeredRef
                    /\ InFlight(pnet', "search") = InFlight(pnet, "search")
                    /\ voice' = ""
       /\ \A m \in rnet, resp \in {"ok", "invalid", "error", "throw"},
             st \in StatusShapes \cup {NullStatus} :
             (m.sid # r.sessionId /\ frameResponse(m, resp, st))
                 => /\ r'.detectionResult = r.detectionResult
                    /\ r'.error = r.error
                    /\ r'.active = r.active
                    /\ r'.taskText = r.taskText
                    /\ r'.isStreaming = r.isStreaming
                    /\ r'.completionTimers = r.completionTimers
                    /\ voice' = ""]_vars

\* C10: no frame is submitted after a terminal response has been processed,
\* after the session has ended or after the camera was stopped
C10_NoFrameAfterTermination ==
    [][/\ \A c \in 0..MaxSessions :
             captureAndProcessFrame(c)
                 => /\ ~p.verificationComplete
                    /\ p.sessionId # NoSid
                    /\ p.isStreaming
       /\ \A c \in Closures :
             frameLoop(c)
                 => /\ ~r.verificationCompleteRef
                    /\ r.isStreaming]_vars

\* C11: a frame or poll response that reports the session invalid during an
\* active challenge ends the attempt: the session-invalid error is shown, no
\* frame timer, status timer or frame loop is left running, and no frame is
\* sent while that error is shown
C11_InvalidSessionStops ==
    [][/\ \A m \in pnet :
             (p.isTaskActive /\ captureAndProcessFrameDone(m, "invalid"))
                 => /\ p'.frameTimers = NoTimers
                    /\ p'.statusTimers = NoTimers
       /\ \A m \in pnet, st \in StatusShapes :
             (p.isTaskActive /\ updateTaskStatusDone(m, "invalid", st))
                 => /\ p'.frameTimers = NoTimers
                    /\ p'.statusTimers = NoTimers
                    /\ p'.error # "none"
       /\ \A m \in rnet :
             (r.isStreaming /\ frameResponse(m, "invalid", NullStatus))
                 => r'.error = "session-expired" /\ ~r'.isStreaming
       /\ \A c \in Closures :
             frameLoop(c) => r.error # "session-expired"]_vars

\* C12: when the camera is denied or times out after a session was created,
\* an end-session request that carries the created session identifier is
\* issued
C12_CameraFailureEndsSession ==
    [][/\ \A m \in pnet :
             startCamera(m, "denied")
                 => \E e \in pnet' : e.op = "end" /\ e.sid = m.new
       /\ \A m \in rnet :
             (m.new # NoSid /\ startLivenessCamera(m, "denied"))
                 => \E e \in rnet' : e.op = "end" /\ e.sid = m.new]_vars

\* C13: when a start creates a session while the component still holds an
\* earlier one (one whose end-session request has not returned), an
\* end-session request for the earlier one has been issued by then
C13_OneSessionAtATime ==
    [][/\ \A m \in pnet :
             (p.sessionId # NoSid /\ createSession(m, "ok"))
                 => \E e \in pnet' : e.op = "end" /\ e.sid = p.sessionId
       /\ \A m \in rnet :
             (r.sessionId # NoSid /\ startLivenessCreated(m, "ok"))
                 => \E e \in rnet' : e.op = "end" /\ e.sid = r.sessionId]_vars

\* C14: the completion step first sends one search request with the
\* reference image; a search response with a match identifier records Matched
\* and sends no enroll request; a search response without one sends exactly
\* one enroll request with the same image and records nothing yet; the enroll
\* response records Enrolled and sends nothing
C14_SearchThenEnroll ==
    [][/\ \A m \in pnet, st \in StatusShapes :
             (/\ updateTaskStatusDone(m, "ok", st)
              /\ IsTerminal(st) /\ PShouldTrigger(st)
              /\ p.capturedImageRef # NoImage)
                 => \E q \in pnet' :
                       /\ q.op = "search" /\ q.img = p.capturedImageRef
                       /\ pnet' \ pnet = {q}
       /\ (performFaceVerificationR /\ RMayVerify)
             => \E q \in rnet' :
                   /\ q.op = "search" /\ q.img = r.capturedImageRef
                   /\ rnet' \ rnet = {q}
       /\ \A m \in pnet :
             /\ performFaceVerificationSearch(m, "match")
                   => /\ p'.faceVerificationResult = "matched"
                      /\ pnet' = pnet \ {m}
             /\ performFaceVerificationSearch(m, "nomatch")
                   => /\ \E q \in pnet' :
                            /\ q.op = "enroll" /\ q.img = m.img
                            /\ pnet' \ pnet = {q}
                      /\ p'.faceVerificationResult = p.faceVerificationResult
             /\ performFaceVerificationEnroll(m, "ok")
                   => /\ p'.faceVerificationResult = "enrolled"
                      /\ pnet' = pnet \ {m}
       /\ \A m \in rnet :
             /\ searchFaceResponse(m, "match")
                   => /\ r'.faceVerificationResult = "existing"
                      /\ rnet' = rnet \ {m}
             /\ searchFaceResponse(m, "nomatch")
                   => /\ \E q \in rnet' :
                            /\ q.op = "enroll" /\ q.img = m.img
                            /\ rnet' \ rnet = {q}
                      /\ r'.faceVerificationResult = r.faceVerificationResult
             /\ addFaceResponse(m, "ok")
                   => /\ r'.faceVerificationResult = "new"
                      /\ rnet' = rnet \ {m}]_vars

\* an enroll response has been recorded as Enrolled (the search before it
\* carried no match identifier)
C14_Enrolled ==
    p.faceVerificationResult = "enrolled" \/ r.faceVerificationResult = "new"

\* C15: a search or enroll request that fails (a transport error, a non-OK
\* status or a body that does not parse) is reported as a face-verification
\* error, records no result, sends no further request and leaves the task
\* status and the completion flags as they were
C15_PipelineFailureReported ==
    [][/\ \A m \in pnet, resp \in {"failed", "throw"} :
             (performFaceVerificationSearch(m, resp)
                  \/ performFaceVerificationEnroll(m, resp))
                 => /\ p'.error = "face-verification"
                    /\ p'.faceVerificationResult = p.faceVerificationResult
                    /\ pnet' = pnet \ {m}
                    /\ p'.taskStatus = p.taskStatus
                    /\ p'.verificationComplete = p.verificationComplete
       /\ \A m \in rnet, resp \in {"failed", "throw"} :
             (searchFaceResponse(m, resp) \/ addFaceResponse(m, resp))
                 => /\ r'.error = "face-verification"
                    /\ r'.faceVerificationResult = r.faceVerificationResult
                    /\ rnet' = rnet \ {m}
                    /\ r'.verificationCompleteRef = r.verificationCompleteRef]_vars

\* C16: stopCamera and the unmount of the component end the session: when a
\* session identifier is held as either runs, an end-session request for it
\* is pending afterwards
C16_StopAndTeardownEndSession ==
    [][/\ (stopCamera /\ p.sessionId # NoSid)
             => \E e \in pnet' : e.op = "end" /\ e.sid = p.sessionId
       /\ (cleanupOnUnmount /\ p.sessionId # NoSid)
             => \E e \in pnet' : e.op = "end" /\ e.sid = p.sessionId
       /\ (cleanup /\ r.sessionId # NoSid)
             => \E e \in rnet' : e.op = "end" /\ e.sid = r.sessionId]_vars

\* the voice prompts of the challenge instructions
InstructionPrompts == {getVoiceText(d) : d \in Descriptions} \ {""}

\* C17: a response whose active task has a description different from the
\* tracked one issues a voice prompt for an instruction, and a response that
\* repeats the tracked description issues none
C17_PromptOncePerChange ==
    [][/\ \A m \in pnet, st \in StatusShapes :
             (IsActiveTask(st)
                  /\ (startLivenessTaskDone(m, "ok", st)
                         \/ updateTaskStatusDone(m, "ok", st)))
                 => (voice' \in InstructionPrompts <=> st.task # p.taskStatus.task)
       /\ \A m \in rnet, st \in StatusShapes :
             (IsActiveTask(st) /\ frameResponse(m, "ok", st))
                 => (voice' \in InstructionPrompts <=> st.task # r.taskText)]_vars

\* C18: a response that carries the task session is classified by the first
\* rule that matches, session-invalid error, terminal, active challenge, and
\* otherwise changes no task state; exactly the outcome of that rule is
\* applied, and a session-invalid response that also carries a result starts
\* no completion step
C18_FirstMatchingRule ==
    [][/\ \A m \in rnet, st \in StatusShapes \cup {NullStatus} :
             /\ frameResponse(m, "invalid", st)
                   => /\ r'.error = "session-expired" /\ ~r'.isStreaming
                      /\ r'.verificationCompleteRef = r.verificationCompleteRef
                      /\ r'.completionTimers = r.completionTimers
                      /\ r'.active = r.active /\ r'.taskText = r.taskText
                      /\ voice' = ""
             /\ (frameResponse(m, "ok", st) /\ IsTerminal(st))
                   => /\ r'.verificationCompleteRef /\ ~r'.isStreaming
                      /\ ~r'.active /\ r'.taskText = NoText
                      /\ r'.completionTimers =
                             r.completionTimers + (IF st.result = "pass" THEN 1 ELSE 0)
                      /\ voice' \notin InstructionPrompts
             /\ (frameResponse(m, "ok", st) /\ ~IsTerminal(st) /\ IsActiveTask(st))
                   => /\ r'.active /\ r'.taskText = st.task
                      /\ r'.verificationCompleteRef = r.verificationCompleteRef
                      /\ r'.isStreaming = r.isStreaming
                      /\ r'.completionTimers = r.completionTimers
             /\ (frameResponse(m, "ok", st) /\ ~IsTerminal(st) /\ ~IsActiveTask(st))
                   => /\ r'.active = r.active /\ r'.taskText = r.taskText
                      /\ r'.verificationCompleteRef = r.verificationCompleteRef
                      /\ r'.isStreaming = r.isStreaming
                      /\ r'.completionTimers = r.completionTimers
                      /\ voice' = ""
       /\ \A m \in pnet, st \in StatusShapes :
             updateTaskStatusDone(m, "invalid", st)
                 => /\ p'.taskStatus = p.taskStatus
                    /\ p'.verificationComplete = p.verificationComplete
                    /\ p'.verificationTriggeredRef = p.verificationTriggeredRef
                    /\ InFlight(pnet', "search") = InFlight(pnet, "search")
                    /\ voice' = ""]_vars

\* the task sessions that carry neither an active task nor a result (none
\* at all, or one of a challenge that has not begun: no face yet)
NoTaskNoResult == {NullStatus, Status(FALSE, NoText, "none")}

\* C19: a frame response without an error that carries neither an active
\* task nor a terminal result leaves the task state, the tracked text and
\* timer, the completion latches and the reference image as they were, issues
\* no voice prompt and leaves the capture loop running
C19_NoOpFrame ==
    [][/\ \A m \in rnet, st \in NoTaskNoResult :
             frameResponse(m, "ok", st)
                 => /\ r'.active = r.active
                    /\ r'.taskText = r.taskText
                    /\ r'.timer = r.timer
                    /\ r'.verificationCompleteRef = r.verificationCompleteRef
                    /\ r'.faceVerificationTriggeredRef = r.faceVerificationTriggeredRef
                    /\ r'.completionTimers = r.completionTimers
                    /\ r'.capturedImageRef = r.capturedImageRef
                    /\ r'.isStreaming = r.isStreaming
                    /\ r'.animationFrameRef = r.animationFrameRef
                    /\ voice' = ""
       /\ \A m \in pnet :
             captureAndProcessFrameDone(m, "ok")
                 => /\ p'.taskStatus = p.taskStatus
                    /\ p'.isTaskActive = p.isTaskActive
                    /\ p'.verificationComplete = p.verificationComplete
                    /\ p'.verificationTriggeredRef = p.verificationTriggeredRef
                    /\ p'.capturedImageRef = p.capturedImageRef
                    /\ p'.isStreaming = p.isStreaming
                    /\ p'.frameTimers = p.frameTimers
                    /\ p'.statusTimers = p.statusTimers
                    /\ pnet' = pnet \ {m}
                    /\ voice' = ""]_vars

\* in a first attempt of the raf variant a frame response has been stored and
\* no task, terminal result or error has been seen: the responses so far
\* carried neither, and the loop is still running
C19_NoOpFrameSeen ==
    /\ rg.attempt = 1
    /\ r.detectionResult /\ r.error = "none"
    /\ r.isStreaming /\ r.animationFrameRef # NoTimer
    /\ ~r.active /\ r.taskText = NoText
    /\ ~r.verificationCompleteRef

\* C20: when a frame submission fails (the request throws; in the raf
\* variant, where the status is not looked at, also a body with an error
\* other than an invalid session and no task session), the busy flag is
\* cleared, the timers and the frame loop are left running, the task state
\* and the latches are as they were, and a tick with a ready camera (in the
\* raf variant: once the throttle time has passed) submits again
C20_FrameFailureIsTransient ==
    [][/\ \A m \in pnet :
             captureAndProcessFrameDone(m, "throw")
                 => /\ ~p'.processingFrameRef
                    /\ p'.frameTimers = p.frameTimers
                    /\ p'.statusTimers = p.statusTimers
                    /\ p'.isStreaming = p.isStreaming
                    /\ p'.taskStatus = p.taskStatus
                    /\ p'.isTaskActive = p.isTaskActive
                    /\ p'.verificationComplete = p.verificationComplete
                    /\ p'.verificationTriggeredRef = p.verificationTriggeredRef
                    /\ p'.capturedImageRef = p.capturedImageRef
                    /\ \A c \in Sids : p'.videoReady => PCanSubmit(c)'
       /\ \A m \in rnet, resp \in {"throw", "error"} :
             frameResponse(m, resp, NullStatus)
                 => /\ ~r'.processingFrameRef
                    /\ r'.animationFrameRef = r.animationFrameRef
                    /\ r'.isStreaming = r.isStreaming
                    /\ r'.active = r.active
                    /\ r'.taskText = r.taskText
                    /\ r'.verificationCompleteRef = r.verificationCompleteRef
                    /\ r'.faceVerificationTriggeredRef = r.faceVerificationTriggeredRef
                    /\ r'.completionTimers = r.completionTimers
                    /\ r'.capturedImageRef = r.capturedImageRef
                    /\ \A c \in Sids :
                          (r'.videoReady /\ r'.sinceLastFrame >= ThrottleMs)
                              => RCanSubmit(c)']_vars

\* a frame has been submitted after a frame submission failed
C20_FrameAfterFailure ==
    /\ p.error = "frame-failed"
    /\ p.processingFrameRef
    /\ InFlight(pnet, "frame") # {}

\* C21: a frame submission that fails (the request throws) does not set the
\* error shown to the user: the error state is as it was before the response
C21_FrameFailureNotShown ==
    [][/\ \A m \in pnet :
             captureAndProcessFrameDone(m, "throw") => p'.error = p.error
       /\ \A m \in rnet :
             frameResponse(m, "throw", NullStatus) => r'.error = r.error]_vars

\* C22: the reference image is captured by the step that sends the
\* start-challenge request of an attempt and by no other step; no frame tick,
\* status poll or response changes it (only handleReset clears it); a search
\* request carries the reference image held when the completion step runs,
\* and an enroll request carries the image of the search it follows
C22_ReferenceImageFixed ==
    [][/\ p'.capturedImageRef # p.capturedImageRef
             => \/ handleReset /\ p'.capturedImageRef = NoImage
                \/ /\ startLivenessTask
                   /\ p'.capturedImageRef = pg'.attempt
                   /\ \E q \in pnet' \ pnet : q.op = "startTask"
       /\ (startLivenessTask /\ p.sessionId # NoSid)
             => p'.capturedImageRef = pg'.attempt
       /\ r'.capturedImageRef # r.capturedImageRef
             => \E m \in rnet :
                   /\ startLivenessCamera(m, "granted")
                   /\ r'.capturedImageRef = rg.attempt
                   /\ \E q \in rnet' \ rnet : q.op = "startTask"
       /\ \A m \in rnet :
             startLivenessCamera(m, "granted") => r'.capturedImageRef = rg.attempt
       /\ \A q \in pnet' \ pnet :
             /\ q.op = "search"
                   => q.img = p.capturedImageRef /\ q.img # NoImage
             /\ q.op = "enroll"
                   => \E m \in pnet \ pnet' : m.op = "search" /\ m.img = q.img
       /\ \A q \in rnet' \ rnet :
             /\ q.op = "search"
                   => q.img = r.capturedImageRef /\ q.img # NoImage
             /\ q.op = "enroll"
                   => \E m \in rnet \ rnet' : m.op = "search" /\ m.img = q.img]_vars

\* the enroll request of an attempt of the raf variant is pending with the
\* reference image of that attempt, after two frames were submitted
C22_EnrollAfterFrames ==
    /\ rg.frames >= 2
    /\ \E q \in rnet :
          q.op = "enroll" /\ q.img = r.capturedImageRef /\ q.img = rg.attempt

\* C23: handleReset, stopCamera, the unmount and the start of a new attempt
\* leave no reference image behind, and a search request carries the
\* reference image captured in the attempt in which it is sent
C23_ReferenceImageCleared ==
    [][/\ handleReset => p'.capturedImageRef = NoImage
       /\ stopCamera => p'.capturedImageRef = NoImage
       /\ cleanupOnUnmount => p'.capturedImageRef = NoImage
       /\ startLiveness => r'.capturedImageRef = NoImage
       /\ cleanup => r'.capturedImageRef = NoImage
       /\ \A q \in pnet' \ pnet : q.op = "search" => q.img = pg.attempt
       /\ \A q \in rnet' \ rnet : q.op = "search" => q.img = rg.attempt]_vars

\* C24: in the raf variant a frame is submitted only when at least the
\* throttle interval (50 ms) has passed since the submission before it,
\* whenever the animation-frame callbacks run and the responses arrive
C24_MinimumInterval ==
    [][\A c \in Closures :
          frameLoop(c) => rg.sinceSubmit >= ThrottleMs /\ rg'.sinceSubmit = 0]_vars

\* a second frame has been submitted, and less than the throttle interval
\* has passed since: a callback that runs now is too early
C24_SecondFrameSent ==
    /\ rg.frames >= 2
    /\ rg.sinceSubmit < ThrottleMs
    /\ r.animationFrameRef # NoTimer
    /\ ~r.processingFrameRef

\* C25: while a challenge task is active, a status update that is applied
\* for the task that is tracked does not raise its remaining time, in
\* whatever order the responses to the polls are delivered
C25_TimeNeverIncreases ==
    [][\A m \in pnet, st \in StatusShapes :
          (/\ p.isTaskActive
           /\ IsActiveTask(p.taskStatus)
           /\ IsActiveTask(st)
           /\ st.task = p.taskStatus.task
           /\ updateTaskStatusDone(m, "ok", st))
              => p'.taskTime <= p.taskTime]_vars

\* C26: once handleStart has created a session and started the camera, a
\* frame-timer tick that finds the camera ready and no submission in flight
\* submits a frame, and every frame and poll request carries the identifier
\* of the current session, the one the last start created
C26_TicksSubmitForCurrentSession ==
    [][/\ \A c \in 0..MaxSessions :
             (/\ p.frameTimers[c] > 0
              /\ p.isStreaming
              /\ p.videoReady
              /\ ~p.processingFrameRef)
                 => PCanSubmit(c)
       /\ \A q \in pnet' \ pnet :
             q.op \in {"frame", "poll"}
                 => q.sid # NoSid /\ q.sid = p.nextSid - 1
       /\ \A q \in rnet' \ rnet :
             q.op = "frame"
                 => q.sid # NoSid /\ q.sid = r.nextSid - 1]_vars

\* C27: at most one frame timer and at most one status timer are live at
\* any time, no status timer is live once a terminal response has been
\* processed, and none is live while the camera is stopped
C27_OneTimerEach ==
    [][/\ Registered(p'.frameTimers) <= 1
       /\ Registered(p'.statusTimers) <= 1
       /\ \A m \in pnet, st \in StatusShapes :
             (updateTaskStatusDone(m, "ok", st) /\ IsTerminal(st))
                 => p'.statusTimers = NoTimers
       /\ ~p'.isStreaming => p'.statusTimers = NoTimers]_vars

\* C28: once a terminal response with final_result = false has been
\* processed in an attempt, a further such response in that attempt issues
\* no failure voice prompt
C28_FailureSurfacedOnce ==
    [][/\ \A m \in pnet :
             (/\ p.verificationComplete
              /\ p.taskStatus = Status(FALSE, NoText, "fail")
              /\ updateTaskStatusDone(m, "ok", Status(FALSE, NoText, "fail")))
                 => voice' # "Liveness verification failed"
       /\ \A m \in rnet :
             (/\ r.verificationCompleteRef
              /\ ~rg.passSeen
              /\ frameResponse(m, "ok", Status(FALSE, NoText, "fail")))
                 => voice' # "Liveness verification failed"]_vars

\* C29: the completion step started by a terminal response with
\* final_result = true does not end silently: when the response is processed
\* and no completion step has been started in the attempt, a search or
\* enroll request is pending afterwards (its response records Matched or
\* Enrolled or reports a face-verification error); in the raf variant, where
\* the step runs a second later, it is then not blocked by the latch unless a
\* search or enroll request, a result or a reported error is there already
C29_CompletionNeverSilent ==
    [][/\ \A m \in pnet :
             (/\ ~p.verificationTriggeredRef
              /\ updateTaskStatusDone(m, "ok", Status(FALSE, NoText, "pass")))
                 => InFlight(pnet', "search") \cup InFlight(pnet', "enroll") # {}
       /\ \A m \in rnet :
             frameResponse(m, "ok", Status(FALSE, NoText, "pass"))
                 => \/ ~r'.faceVerificationTriggeredRef
                    \/ InFlight(rnet', "search") \cup InFlight(rnet', "enroll") # {}
                    \/ r'.faceVerificationResult # "none"
                    \/ r'.error = "face-verification"
       /\ (performFaceVerificationR /\ ~r.faceVerificationTriggeredRef)
             => \E q \in rnet' \ rnet : q.op = "search"]_vars

\* C30: a search response that is an error (a non-OK status) sends no enroll
\* request, and an enroll response without an identity identifier is reported
\* as a face-verification error and leaves the recorded result as it was
C30_EnrollNeedsNoMatchAndIdentifier ==
    [][/\ \A m \in pnet :
             /\ performFaceVerificationSearch(m, "failed")
                   => InFlight(pnet', "enroll") = InFlight(pnet, "enroll")
             /\ performFaceVerificationEnroll(m, "noId")
                   => /\ p'.faceVerificationResult = p.faceVerificationResult
                      /\ p'.error = "face-verification"
       /\ \A m \in rnet :
             /\ searchFaceResponse(m, "failed")
                   => InFlight(rnet', "enroll") = InFlight(rnet, "enroll")
             /\ \A resp \in {"noId", "noData"} :
                   addFaceResponse(m, resp)
                       => /\ r'.faceVerificationResult = r.faceVerificationResult
                          /\ r'.error = "face-verification"]_vars

\* a poll is answered with a body (a status, not a failure)
PollAnswered ==
    \E m \in pnet, st \in StatusShapes : updateTaskStatusDone(m, "ok", st)

\* C31: when every request returns and the timers keep ticking, the controls
\* come back again and again (a button is enabled), unless the service keeps
\* answering the polls with a status: polls that fail do not keep the
\* machine without controls forever
C31_ControlsComeBack ==
    []<>PControlsEnabled \/ []<><<PollAnswered>>_vars

====
